---- MODULE Spec2Model ----
(***************************************************************************)
(* Elevator-Emulator.c: the main loop of start_elevator_emulator and the   *)
(* TIMER1_COMPA interrupt, as two interleaved processes over the shared    *)
(* globals.  The interrupt runs to completion (one action); the main loop  *)
(* is cut at every read or write of a variable the interrupt also touches. *)
(*                                                                         *)
(* Left out: the LED matrix (except the waiting-traveller marker), the     *)
(* seven-segment patterns, the door LEDs on PORTC (they mirror             *)
(* elevator_door_open), the terminal text and direction_change /           *)
(* old_direction_change, which only decide when the terminal is redrawn.   *)
(***************************************************************************)
EXTENDS Integers, Naturals, Sequences, FiniteSets, TLC

\* ---- program constants --------------------------------------------------
FLOOR_0 == 0
FLOOR_1 == 4
FLOOR_2 == 8
FLOOR_3 == 12
floors == <<FLOOR_0, FLOOR_1, FLOOR_2, FLOOR_3>>
FloorCoords == {FLOOR_0, FLOOR_1, FLOOR_2, FLOOR_3}
SPEED_SLOW == 300
SPEED_FAST == 125
NoInput == -1
CounterMod == 256

\* ---- bounds --------------------------------------------------------------
\* Length of a door phase in ticks, scaled down from the source's 800.
PhaseTicks == 3
\* Number of requests the environment gets accepted in one run.
MaxRequests == 2
\* The two tone thresholds, 100 ticks each in the source, scaled with the
\* phase length; the source's order 1 < tone < phase is kept.
ToneTicks == PhaseTicks - 1
ButtonTicks == PhaseTicks - 1

VARIABLES
    current_position, destination, current_floor, old_floor,
    traveller_active, traveller_onboard, traveller_floor,
    floors_w_traveller, floors_no_traveller,
    floor_just_reached, animation_phase, animation_timer,
    elevator_door_open, button_just_pushed, button_timer,
    sound,           \* piezo: "off", "3kHz" (OCR2A = 41), "500Hz" (OCR2A = 249)
    waiting_marker,  \* colour index of LED (5, traveller_floor + 1), NoInput = empty
    elapsed,         \* get_current_time() - time_since_move, by threshold passed
    pc,              \* position of the main loop
    polled,          \* history: what the last poll of the inputs asked for
    requests,        \* accepted requests so far (bounds the run)
    cycle_here,      \* history: a door cycle was started since the last arrival
    svc_car, svc_n0, svc_w0,  \* history: car position and counters at acceptance
    iter_done        \* history: a main-loop iteration ended since the last tick

vars == <<current_position, destination, current_floor, old_floor,
          traveller_active, traveller_onboard, traveller_floor,
          floors_w_traveller, floors_no_traveller,
          floor_just_reached, animation_phase, animation_timer,
          elevator_door_open, button_just_pushed, button_timer,
          sound, waiting_marker, elapsed, pc,
          polled,
          requests, cycle_here, svc_car, svc_n0, svc_w0, iter_done>>

carVars == <<current_position, destination, current_floor, old_floor,
             traveller_active, traveller_onboard, traveller_floor,
             floors_w_traveller, floors_no_traveller, waiting_marker>>
isrVars == <<animation_phase, animation_timer, elevator_door_open,
             button_timer, sound>>
histVars == <<requests, cycle_here, svc_car, svc_n0, svc_w0>>

Abs(x) == IF x < 0 THEN -x ELSE x

\* ---- initial state: globals are zero-initialised, then lines 218-233 -----
Init ==
    /\ current_position = FLOOR_0
    /\ destination = FLOOR_0
    /\ current_floor = FLOOR_0
    /\ old_floor = FLOOR_0
    /\ traveller_active = FALSE
    /\ traveller_onboard = FALSE
    /\ traveller_floor = 0
    /\ floors_w_traveller = 0
    /\ floors_no_traveller = 0
    /\ floor_just_reached = FALSE
    /\ animation_phase = 0
    /\ animation_timer = 0
    /\ elevator_door_open = FALSE
    /\ button_just_pushed = FALSE
    /\ button_timer = 0
    /\ sound = "off"
    /\ waiting_marker = NoInput
    /\ elapsed = 0
    /\ pc = "move"
    /\ polled = "none"
    /\ requests = 0
    /\ cycle_here = FALSE
    /\ svc_car = 0
    /\ svc_n0 = 0
    /\ svc_w0 = 0
    /\ iter_done = FALSE

\* ---- environment ---------------------------------------------------------
ASCII_0 == 48
\* what button_pushed() can return
AnyButton == {NoInput} \cup (0..3)
\* what fgetc(stdin) can return, NoInput when nothing is available; any
\* character other than '0'..'3' acts as NoInput does
AnyChar == {NoInput} \cup {ASCII_0 + i : i \in 0..3}
\* the inputs of a run: nothing is pushed or typed once MaxRequests
\* requests were accepted
Buttons == IF requests < MaxRequests THEN AnyButton ELSE {NoInput}
SerialChars == IF requests < MaxRequests THEN AnyChar ELSE {NoInput}
\* what the floor selector switches PC6:PC5 can read
SelectorValues == 0..3

\* get_current_time() moves on: the difference to time_since_move passes the
\* next of the two thresholds it is compared with.  The clock is read at
\* line 249 only and the reading decides nothing while floor_just_reached is
\* set, so its progress is taken where it is looked at.
TimePasses ==
    /\ pc = "move"
    /\ ~floor_just_reached
    /\ elapsed <= SPEED_SLOW
    /\ elapsed' = IF elapsed <= SPEED_FAST THEN SPEED_FAST + 1 ELSE SPEED_SLOW + 1
    /\ UNCHANGED <<carVars, isrVars, polled, histVars, floor_just_reached,
                   button_just_pushed, pc, iter_done>>

\* ---- main loop -----------------------------------------------------------
\* lines 241-246
Speed(pc7) == IF pc7 THEN SPEED_SLOW ELSE SPEED_FAST

\* the movement update without the test of floor_just_reached
MoveDue_Ungated(el, sp, fjr) == el > sp

\* line 249: the condition of the movement update
MoveDue(el, sp, fjr) == el > sp /\ ~fjr

\* a car that goes to the destination in one update
NextPosition_Jump(cur, dest) == dest

\* lines 252-256
NextPosition(cur, dest) ==
    IF dest - cur > 0 THEN cur + 1
    ELSE IF dest - cur < 0 THEN cur - 1
    ELSE cur

\* lines 241-262 with the speed switch PC7 reading pc7.  floor_just_reached
\* is read once and only the main loop sets it, so the test and the update
\* are one step.
MoveWith(pc7) ==
    /\ pc = "move"
    /\ IF MoveDue(elapsed, Speed(pc7), floor_just_reached)
       THEN /\ current_position' = NextPosition(current_position, destination)
            /\ elapsed' = 0
       ELSE UNCHANGED <<current_position, elapsed>>
    /\ cycle_here' = (cycle_here /\ current_position' = current_position)
    /\ pc' = "inputs"
    /\ UNCHANGED <<destination, current_floor, old_floor, traveller_active,
                   traveller_onboard, traveller_floor, floors_w_traveller,
                   floors_no_traveller, waiting_marker, isrVars, polled,
                   floor_just_reached, button_just_pushed, requests, svc_car,
                   svc_n0, svc_w0, iter_done>>

Move == \E pc7 \in BOOLEAN : MoveWith(pc7)

\* a traveller may be placed while another one is active
NoTraveller_Always(active) == TRUE

\* line 429, first operand: no traveller is active
NoTraveller(active) == ~active

\* a traveller may be placed on the floor the selector shows
OtherFloor_Any(i, choice) == TRUE

\* line 429, second operand: floor i is not the floor the selector shows
OtherFloor(i, choice) == i # choice

\* line 429: the condition under which the request for floor i is accepted
Accepts(active, i, choice) == NoTraveller(active) /\ OtherFloor(i, choice)

\* line 428: floor i is asked for by the button or by the key
Asked(b, s, i) == b = i \/ s = ASCII_0 + i

\* lines 427-437: the loop of handle_inputs from index i on; st holds the
\* globals the loop writes
RECURSIVE InputLoop(_, _, _, _, _)
InputLoop(i, b, s, choice, st) ==
    IF i >= 4 THEN st
    ELSE IF Asked(b, s, i) /\ Accepts(st.traveller_active, i, choice)
         THEN InputLoop(i + 1, b, s, choice,
                  [destination |-> floors[i + 1],
                   waiting_marker |-> choice,
                   traveller_active |-> TRUE,
                   traveller_floor |-> floors[i + 1],
                   button_just_pushed |-> TRUE])
         ELSE InputLoop(i + 1, b, s, choice, st)

\* a sticky floor that follows every coordinate
StickyFloor_Any(pos, cf) == pos

\* lines 447-450: the sticky floor
StickyFloor(pos, cf) == IF pos \in FloorCoords THEN pos ELSE cf

\* the two counters swapped
CountsWithTraveller_Inverted(onboard) == ~onboard

\* lines 456-463: which counter a floor change goes to
CountsWithTraveller(onboard) == onboard

\* lines 440-472, handle_displays: the new values of the variables it writes
handle_displays(pos, cf, oldf, onboard, w, n) ==
    LET newf == StickyFloor(pos, cf)
        floor_changed == oldf # newf
    IN  [current_floor |-> newf,
         old_floor |-> newf,
         floors_w_traveller |->
             IF floor_changed /\ CountsWithTraveller(onboard)
             THEN (w + 1) % CounterMod ELSE w,
         floors_no_traveller |->
             IF floor_changed /\ ~CountsWithTraveller(onboard)
             THEN (n + 1) % CounterMod ELSE n]

\* the globals handle_inputs writes
RequestState ==
    [destination |-> destination,
     waiting_marker |-> waiting_marker,
     traveller_active |-> traveller_active,
     traveller_floor |-> traveller_floor,
     button_just_pushed |-> button_just_pushed]

\* what a poll asks for: no floor, the floor c the selector shows and no
\* other, or some other floor
Polled(c, b, s) ==
    LET asked == {i \in 0..3 : Asked(b, s, i)}
    IN  IF asked = {} THEN "none"
        ELSE IF asked = {c} THEN "own"
        ELSE "other"

\* line 272: the destination taken at the traveller's floor
PickupDestination(choice) == choice * 4

\* lines 271, 279 and 291: the car is at the floor of an active traveller
AtFloor(active, tf, pos) == active /\ tf = pos

AtTravellerFloor == AtFloor(traveller_active, traveller_floor, current_position)

\* a block that runs during the door animation as well
BlockRuns_Always(fjr) == TRUE

\* line 263: the condition of the block of lines 264-288
BlockRuns(fjr) == ~fjr

\* lines 263-276 with the selector reading c, button_pushed() returning b and
\* the serial input s: the test of floor_just_reached, handle_inputs, the new
\* destination at the traveller's floor, then handle_displays.  The interrupt
\* reads and writes none of the variables of lines 271-276, so they are one
\* step with the call before them.
InputsWith(c, b, s) ==
    /\ pc = "inputs"
    /\ BlockRuns(floor_just_reached)
    /\ \E st \in {InputLoop(0, b, s, c, RequestState)} :
       \E d \in {handle_displays(current_position, current_floor, old_floor,
                                 traveller_onboard, floors_w_traveller,
                                 floors_no_traveller)} :
       LET accepted == st.traveller_active /\ ~traveller_active
       IN  /\ polled' = Polled(c, b, s)
           /\ waiting_marker' = st.waiting_marker
           /\ traveller_active' = st.traveller_active
           /\ traveller_floor' = st.traveller_floor
           /\ button_just_pushed' = st.button_just_pushed
           /\ destination' = IF AtFloor(st.traveller_active, st.traveller_floor,
                                        current_position)
                             THEN PickupDestination(c) ELSE st.destination
           /\ current_floor' = d.current_floor
           /\ old_floor' = d.old_floor
           /\ floors_w_traveller' = d.floors_w_traveller
           /\ floors_no_traveller' = d.floors_no_traveller
           /\ requests' = IF accepted THEN requests + 1 ELSE requests
           /\ cycle_here' = (cycle_here /\ ~accepted)
           /\ svc_car' = IF accepted THEN current_position ELSE svc_car
           /\ svc_n0' = IF accepted THEN floors_no_traveller ELSE svc_n0
           /\ svc_w0' = IF accepted THEN floors_w_traveller ELSE svc_w0
    /\ pc' = "arrive"
    /\ UNCHANGED <<current_position, traveller_onboard, isrVars,
                   floor_just_reached, elapsed, iter_done>>

HandleInputs ==
    \E c \in SelectorValues, b \in Buttons, s \in SerialChars : InputsWith(c, b, s)

\* line 263 when floor_just_reached is set: the block is skipped
SkipBlock ==
    /\ pc = "inputs"
    /\ ~BlockRuns(floor_just_reached)
    /\ pc' = "board"
    /\ UNCHANGED <<carVars, isrVars, polled, histVars, floor_just_reached,
                   button_just_pushed, elapsed, iter_done>>

\* a dropoff on whatever floor the car stands on
AtDestination_AnyFloor == traveller_onboard /\ current_position \in FloorCoords

\* a dropoff wherever the car is
AtDestination_Anywhere == traveller_onboard

\* line 284
AtDestination == traveller_onboard /\ current_position = destination

\* lines 279-288: both writes of floor_just_reached store TRUE and the
\* interrupt reads none of the other variables written here, so the two
\* if-statements are one step.
Arrive ==
    /\ pc = "arrive"
    /\ floor_just_reached' = (floor_just_reached \/ AtTravellerFloor \/ AtDestination)
    /\ IF AtDestination
       THEN /\ traveller_onboard' = FALSE
            /\ traveller_active' = FALSE
            /\ svc_car' = 0
            /\ svc_n0' = 0
            /\ svc_w0' = 0
       ELSE UNCHANGED <<traveller_onboard, traveller_active, svc_car,
                        svc_n0, svc_w0>>
    /\ cycle_here' = (cycle_here \/ floor_just_reached')
    /\ polled' = "none"
    /\ pc' = "board"
    /\ UNCHANGED <<current_position, destination, current_floor, old_floor,
                   traveller_floor, floors_w_traveller, floors_no_traveller,
                   waiting_marker, isrVars, requests,
                   button_just_pushed, elapsed, iter_done>>

\* boarding through a closed door
CanBoard_DoorIgnored(door) == AtTravellerFloor

\* line 291
CanBoard(door) == AtTravellerFloor /\ door

\* lines 291-295: boarding, then the end of the loop body
Board ==
    /\ pc = "board"
    /\ IF CanBoard(elevator_door_open)
       THEN /\ waiting_marker' = NoInput
            /\ traveller_onboard' = TRUE
       ELSE UNCHANGED <<waiting_marker, traveller_onboard>>
    /\ pc' = "move"
    /\ iter_done' = TRUE
    /\ UNCHANGED <<current_position, destination, current_floor, old_floor,
                   traveller_active, traveller_floor, floors_w_traveller,
                   floors_no_traveller, isrVars, polled, histVars,
                   floor_just_reached, button_just_pushed, elapsed>>

\* ---- ISR(TIMER1_COMPA_vect), lines 298-354 -------------------------------
\* a feedback timer that runs longer than a phase of the door sequencer
ButtonTimer_TooLong(pushed, timer, s) ==
    LET t1 == IF pushed THEN timer + 1 ELSE timer
        s1 == IF t1 = 1 THEN "3kHz" ELSE s
    IN  IF t1 >= ButtonTicks + PhaseTicks
        THEN [button_timer |-> 0, button_just_pushed |-> FALSE, sound |-> "off"]
        ELSE [button_timer |-> t1, button_just_pushed |-> pushed, sound |-> s1]

\* a feedback timer that stops one tick late
ButtonTimer_LateStop(pushed, timer, s) ==
    LET t1 == IF pushed THEN timer + 1 ELSE timer
        s1 == IF t1 = 1 THEN "3kHz" ELSE s
    IN  IF t1 > ButtonTicks
        THEN [button_timer |-> 0, button_just_pushed |-> FALSE, sound |-> "off"]
        ELSE [button_timer |-> t1, button_just_pushed |-> pushed, sound |-> s1]

\* lines 307-317: the button feedback timer; s is the piezo before it
ButtonTimer(pushed, timer, s) ==
    LET t1 == IF pushed THEN timer + 1 ELSE timer
        s1 == IF t1 = 1 THEN "3kHz" ELSE s
    IN  IF t1 >= ButtonTicks
        THEN [button_timer |-> 0, button_just_pushed |-> FALSE, sound |-> "off"]
        ELSE [button_timer |-> t1, button_just_pushed |-> pushed, sound |-> s1]

\* a phase that ends on its first tick
PhaseDone_AtOnce(t) == t >= 1

\* lines 321, 336 and 347: the phase has run its length
PhaseDone(t) == t >= PhaseTicks

\* a sequencer that leaves out the opening phase
NextPhase_SkipOpening(phase) ==
    CASE phase = 0 -> 2
      [] phase = 1 -> 2
      [] phase = 2 -> 0

\* lines 322, 337 and 348: the phase that follows
NextPhase(phase) ==
    CASE phase = 0 -> 1
      [] phase = 1 -> 2
      [] phase = 2 -> 0

\* a door that closes at the end of phase 2
DoorAfter_LateClose(phase, t, door) ==
    IF phase = 1 /\ t = 1 THEN TRUE
    ELSE IF phase = 2 /\ PhaseDone(t) THEN FALSE
    ELSE door

\* lines 327-330 and 342-345: the door after this tick
DoorAfter(phase, t, door) ==
    IF phase = 1 /\ t = 1 THEN TRUE
    ELSE IF phase = 2 /\ t = 1 THEN FALSE
    ELSE door

\* lines 331-335: the piezo after this tick
ToneAfter(phase, t, s) ==
    IF phase # 1 THEN s
    ELSE IF t = ToneTicks THEN "off"
    ELSE IF t = 1 THEN "500Hz"
    ELSE s

\* lines 318-353: the switch on animation_phase; t is animation_timer after
\* line 305, s the piezo after the button timer
DoorSequencer(phase, t, door, fjr, s) ==
    [animation_phase |-> IF PhaseDone(t) THEN NextPhase(phase) ELSE phase,
     animation_timer |-> IF PhaseDone(t) THEN 0 ELSE t,
     elevator_door_open |-> DoorAfter(phase, t, door),
     floor_just_reached |-> IF phase = 2 /\ PhaseDone(t) THEN FALSE ELSE fjr,
     sound |-> ToneAfter(phase, t, s)]

\* the interrupt handler, run to completion
ISR ==
    LET t == IF floor_just_reached THEN animation_timer + 1 ELSE animation_timer
    IN  \E b \in {ButtonTimer(button_just_pushed, button_timer, sound)} :
        \E a \in {DoorSequencer(animation_phase, t, elevator_door_open,
                                 floor_just_reached, b.sound)} :
        /\ button_timer' = b.button_timer
        /\ button_just_pushed' = b.button_just_pushed
        /\ animation_phase' = a.animation_phase
        /\ animation_timer' = a.animation_timer
        /\ elevator_door_open' = a.elevator_door_open
        /\ floor_just_reached' = a.floor_just_reached
        /\ sound' = a.sound
        /\ UNCHANGED <<carVars, polled, histVars, elapsed, pc>>

\* the interrupt fires at any point of the main loop
Tick == ISR /\ UNCHANGED iter_done

\* ---- specifications ------------------------------------------------------
Next ==
    \/ Move
    \/ HandleInputs
    \/ SkipBlock
    \/ Arrive
    \/ Board
    \/ Tick
    \/ TimePasses

Spec == Init /\ [][Next]_vars

\* ---- the paced specifications --------------------------------------------
\* The main loop runs many times per tick period: the interrupt fires at any
\* point of the loop, but not twice within one iteration.
PacedTick == iter_done /\ ISR /\ iter_done' = FALSE

PacedNext ==
    \/ Move
    \/ HandleInputs
    \/ SkipBlock
    \/ Arrive
    \/ Board
    \/ PacedTick
    \/ TimePasses

PacedSpec == Init /\ [][PacedNext]_vars

\* The floor selector is held while a traveller is in service: it reads the
\* floor shown by the waiting marker and, once the marker is erased, the
\* floor the destination was taken from.
HeldSelector ==
    IF ~traveller_active THEN SelectorValues
    ELSE IF waiting_marker # NoInput THEN {waiting_marker}
    ELSE {destination \div 4}

HandleInputsHeld ==
    \E c \in HeldSelector, b \in Buttons, s \in SerialChars : InputsWith(c, b, s)

MainLoopHeld ==
    \/ Move
    \/ HandleInputsHeld
    \/ SkipBlock
    \/ Arrive
    \/ Board

LiveNext ==
    \/ MainLoopHeld
    \/ PacedTick
    \/ TimePasses

\* The main loop never stops, the timer interrupt keeps firing and the clock
\* keeps running.
LiveSpec ==
    /\ Init
    /\ [][LiveNext]_vars
    /\ WF_vars(MainLoopHeld)
    /\ WF_vars(PacedTick)
    /\ SF_vars(TimePasses)

\* ---- a run that has counted long ------------------------------------------
\* The counters are uint8_t (lines 47-48).  The state after 255 services from
\* floor 1 to floor 0, each started with the car at rest on floor 0: every
\* service counts one floor without and one floor with the traveller, and
\* leaves the car parked on floor 0 with the last traveller's floor in
\* traveller_floor.  requests counts the requests accepted from here on.
WrapInit ==
    /\ current_position = FLOOR_0
    /\ destination = FLOOR_0
    /\ current_floor = FLOOR_0
    /\ old_floor = FLOOR_0
    /\ traveller_active = FALSE
    /\ traveller_onboard = FALSE
    /\ traveller_floor = FLOOR_1
    /\ floors_w_traveller = CounterMod - 1
    /\ floors_no_traveller = CounterMod - 1
    /\ floor_just_reached = FALSE
    /\ animation_phase = 0
    /\ animation_timer = 0
    /\ elevator_door_open = FALSE
    /\ button_just_pushed = FALSE
    /\ button_timer = 0
    /\ sound = "off"
    /\ waiting_marker = NoInput
    /\ elapsed = 0
    /\ pc = "move"
    /\ polled = "none"
    /\ requests = 0
    /\ cycle_here = TRUE
    /\ svc_car = 0
    /\ svc_n0 = 0
    /\ svc_w0 = 0
    /\ iter_done = TRUE

WrapSpec == WrapInit /\ [][Next]_vars

\* ---- properties -----------------------------------------------------------
TypeOK ==
    /\ current_position \in 0..12
    /\ destination \in FloorCoords
    /\ animation_phase \in 0..2
    /\ animation_timer \in 0..PhaseTicks

\* the traveller placed on floor o for floor d waits for the car
Waiting(o, d) ==
    /\ traveller_active
    /\ ~traveller_onboard
    /\ traveller_floor = 4 * o
    /\ waiting_marker = d

\* C1: once a request from floor o to floor d # o is accepted and the selector
\* is held at d, the car eventually reaches 4*o, later reaches 4*d, and in the
\* end no traveller is active or onboard.
C1_EndToEndService ==
    \A o \in 0..3 : \A d \in (0..3) \ {o} :
        [](Waiting(o, d) =>
             <>(current_position = 4 * o
                /\ <>(current_position = 4 * d
                      /\ <>(~traveller_active /\ ~traveller_onboard))))

\* C2: every step that changes current_position starts in a state where
\* floor_just_reached is false, the sequencer is in phase 0, the door is closed
\* and the destination differs from the position.
C2_NoMoveWhileBusy ==
    [][current_position' # current_position =>
          /\ ~floor_just_reached
          /\ animation_phase = 0
          /\ ~elevator_door_open
          /\ destination # current_position]_vars

\* the car is between floors with the traveller in it: it moved after a
\* door cycle
C2_Witness ==
    /\ traveller_onboard
    /\ current_position \notin FloorCoords
    /\ ~floor_just_reached

\* C3: called (line 268) with a traveller active, handle_inputs returns the globals it writes
\* (destination, traveller_floor, traveller_active, button_just_pushed and the
\* marker) as they are, whatever the button, the key and the selector are; it
\* never writes traveller_onboard.
C3_RejectWhileActive ==
    (pc = "inputs" /\ ~floor_just_reached /\ traveller_active) =>
        \A st \in {RequestState} :
            \A c \in SelectorValues : \A b \in AnyButton : \A s \in AnyChar :
                InputLoop(0, b, s, c, st) = st

\* a floor other than the selected one was asked for while the car was on its
\* way with the traveller, and the traveller, its floor and the feedback tone
\* are as before
C3_Witness ==
    /\ pc = "arrive"
    /\ polled = "other"
    /\ traveller_active
    /\ traveller_onboard
    /\ current_position \notin FloorCoords
    /\ ~button_just_pushed

\* the poll holds a request, and every request in it is for the floor c the
\* selector shows
OwnFloorOnly(b, s, c) ==
    /\ b \in {NoInput, c}
    /\ s \in {NoInput, ASCII_0 + c}
    /\ (b # NoInput \/ s # NoInput)

\* C4: in every state it is called in, handle_inputs given a request for the
\* floor the selector shows returns traveller_active, destination,
\* traveller_floor and button_just_pushed as they are.
C4_OwnFloorNoOp ==
    (pc = "inputs" /\ ~floor_just_reached) =>
        \A st \in {RequestState} :
            \A c \in SelectorValues : \A b \in AnyButton : \A s \in AnyChar :
                OwnFloorOnly(b, s, c) => InputLoop(0, b, s, c, st) = st

\* the selected floor was asked for with no traveller active, and none
\* became active
C4_Witness ==
    /\ pc = "arrive"
    /\ polled = "own"
    /\ ~traveller_active
    /\ ~button_just_pushed

\* the states in which the door is open: in phase 1 from the tick that made
\* animation_timer 1, and in phase 2 until its first tick
DoorOpenSpan ==
    \/ animation_phase = 1 /\ animation_timer >= 1
    \/ animation_phase = 2 /\ animation_timer = 0

\* C5: animation_phase only steps 0 -> 1 -> 2 -> 0, and elevator_door_open is
\* true exactly from the tick with animation_timer = 1 in phase 1 to the entry
\* of phase 2 with animation_timer = 0.
C5_PhaseOrderAndDoor ==
    /\ [][animation_phase' # animation_phase =>
             animation_phase' = (animation_phase + 1) % 3]_vars
    /\ [](elevator_door_open <=> DoorOpenSpan)

\* phase 2 has just been entered and the door is still open
C5_Witness ==
    /\ animation_phase = 2
    /\ animation_timer = 0
    /\ elevator_door_open

\* C6: an arrival starts one door cycle: floor_just_reached is not set a
\* second time before the car has moved or a new request was accepted.
C6_OneCyclePerArrival ==
    [][(~floor_just_reached /\ floor_just_reached') => ~cycle_here]_vars

\* C7: at the traveller's floor the destination becomes the floor the waiting
\* marker shows, and it does not change while the traveller is onboard.
C7_RequestedDestination ==
    [][/\ (pc = "inputs" /\ pc' = "arrive" /\ AtTravellerFloor'
           /\ waiting_marker' # NoInput) => destination' = 4 * waiting_marker'
       /\ (traveller_onboard /\ traveller_onboard') => destination' = destination
      ]_vars

\* C8: current_position stays in 0..12 and changes by one unit towards the
\* destination only; at the destination it stays until the destination
\* changes; the speed switch decides only whether the step is due, and a step
\* of the car leaves the sequencer alone.
C8_UnitSteps ==
    [][/\ current_position' \in 0..12
       /\ current_position' # current_position =>
             \/ destination > current_position /\ current_position' = current_position + 1
             \/ destination < current_position /\ current_position' = current_position - 1
       /\ (current_position = destination /\ destination' = destination) =>
             current_position' = current_position
       /\ \A pc7 \in BOOLEAN :
             (MoveWith(pc7) /\ current_position' # current_position) =>
                 /\ elapsed > Speed(pc7)
                 /\ Abs(current_position' - current_position) = 1
                 /\ UNCHANGED <<animation_phase, animation_timer>>
      ]_vars

\* the car is between floors on its way up
C8_Witness ==
    /\ current_position \notin FloorCoords
    /\ destination > current_position
    /\ pc = "inputs"
    /\ elapsed = 0

\* C9: when current_floor takes a new value, the counter chosen by
\* traveller_onboard goes up by one (in 8 bits) and the other one stays; no
\* counter changes otherwise; and outside the span between the move and
\* handle_displays the car standing on a floor has that floor as
\* current_floor.
C9_FloorChangeCounted ==
    /\ [][/\ current_floor' # current_floor =>
                IF traveller_onboard
                THEN /\ floors_w_traveller' = (floors_w_traveller + 1) % CounterMod
                     /\ floors_no_traveller' = floors_no_traveller
                ELSE /\ floors_no_traveller' = (floors_no_traveller + 1) % CounterMod
                     /\ floors_w_traveller' = floors_w_traveller
          /\ current_floor' = current_floor =>
                /\ floors_w_traveller' = floors_w_traveller
                /\ floors_no_traveller' = floors_no_traveller
         ]_vars
    /\ []((pc \in {"arrive", "board", "move"} /\ current_position \in FloorCoords)
             => current_floor = current_position)

\* both counters have counted
C9_Witness ==
    /\ floors_w_traveller >= 1
    /\ floors_no_traveller >= 1
    /\ pc = "arrive"

\* the difference of two 8-bit counter values
CounterDiff(now, before) == (now - before + CounterMod) % CounterMod

\* C10: at the dropoff floors_no_traveller has grown by the number of floors
\* between the car's floor at acceptance and the traveller's floor, and
\* floors_w_traveller by the number of floors between the traveller's floor
\* and the floor of the dropoff.
C10_ServiceCounts ==
    [][(traveller_active /\ ~traveller_active') =>
          /\ CounterDiff(floors_no_traveller, svc_n0) * 4
                = Abs(traveller_floor - svc_car)
          /\ CounterDiff(floors_w_traveller, svc_w0) * 4
                = Abs(current_position - traveller_floor)]_vars

\* car at floor 0, traveller taken from floor 2 to floor 0: about to be
\* dropped with 2 floors counted without and 2 with the traveller
C10_Witness ==
    /\ pc = "arrive"
    /\ AtDestination
    /\ svc_car = FLOOR_0
    /\ traveller_floor = FLOOR_2
    /\ current_position = FLOOR_0
    /\ floors_no_traveller = svc_n0 + 2
    /\ floors_w_traveller = svc_w0 + 2

\* C11: no step makes floors_w_traveller or floors_no_traveller smaller than
\* it was, however many floor changes were counted before.
C11_MonotonicCounters ==
    [][/\ floors_w_traveller' >= floors_w_traveller
       /\ floors_no_traveller' >= floors_no_traveller]_vars

\* a request is accepted in this step
Accepted == ~traveller_active /\ traveller_active'

\* C12: the feedback timer is armed only by an accepted request; a poll that
\* accepts nothing leaves the timer and the piezo alone; the 3 kHz tone
\* starts only on the tick that makes button_timer 1; every tick of an armed
\* timer either counts one up or, on the ButtonTicks-th tick after arming,
\* stops the tone and disarms (button_just_pushed false, button_timer 0).
C12_ConfirmationTone ==
    /\ [][/\ (~button_just_pushed /\ button_just_pushed') =>
                (Accepted /\ button_timer = 0)
          /\ (pc = "inputs" /\ pc' = "arrive" /\ ~Accepted) =>
                UNCHANGED <<button_just_pushed, button_timer, sound>>
          /\ (sound # "3kHz" /\ sound' = "3kHz") =>
                (button_just_pushed /\ button_timer = 0 /\ button_timer' = 1)
          /\ (button_just_pushed /\ ISR) =>
                \/ /\ button_timer + 1 < ButtonTicks
                   /\ button_timer' = button_timer + 1
                   /\ button_just_pushed'
                \/ /\ button_timer + 1 = ButtonTicks
                   /\ button_timer' = 0
                   /\ ~button_just_pushed'
                   /\ sound' = "off"
         ]_vars
    /\ [](button_timer < ButtonTicks)
    /\ [](button_timer > 0 => button_just_pushed)

\* the confirmation tone sounds: first tick after an accepted request
C12_Witness ==
    /\ sound = "3kHz"
    /\ button_just_pushed
    /\ button_timer = 1
    /\ traveller_active

\* C13: a step of the main loop writes none of floor_just_reached,
\* animation_phase, animation_timer, elevator_door_open, button_just_pushed
\* and button_timer, and the interrupt writes none of the car and traveller
\* variables.
C13_SingleWriter ==
    [][/\ pc' # pc =>
             UNCHANGED <<floor_just_reached, animation_phase, animation_timer,
                         elevator_door_open, button_just_pushed, button_timer>>
       /\ ISR =>
             UNCHANGED <<current_position, destination, traveller_active,
                         traveller_onboard, traveller_floor,
                         floors_w_traveller, floors_no_traveller>>]_vars

\* C14 as claimed: the first tick after floor_just_reached became true enters
\* phase 1, opens the door and starts the 500 Hz tone.
C14_TriggerOpensAtOnce ==
    [][(floor_just_reached /\ animation_phase = 0 /\ animation_timer = 0 /\ ISR) =>
          (animation_phase' = 1 /\ elevator_door_open' /\ sound' = "500Hz")]_vars

\* C14 amended: the trigger is raised in phase 0 with animation_timer 0 and
\* the door closed; phase 0 then counts PhaseTicks ticks with the door closed
\* and the last of them enters phase 1 with animation_timer 0; the tick after
\* that, and no other, opens the door, and it starts the 500 Hz tone.
C14_OpeningAfterIdleDelay ==
    [][/\ (~floor_just_reached /\ floor_just_reached') =>
             (animation_phase = 0 /\ animation_timer = 0 /\ ~elevator_door_open)
       /\ (floor_just_reached /\ animation_phase = 0 /\ ISR) =>
             /\ ~elevator_door_open'
             /\ IF animation_timer + 1 < PhaseTicks
                THEN animation_phase' = 0 /\ animation_timer' = animation_timer + 1
                ELSE animation_phase' = 1 /\ animation_timer' = 0
       /\ (animation_phase = 1 /\ animation_timer = 0 /\ ISR) =>
             (elevator_door_open' /\ sound' = "500Hz" /\ animation_timer' = 1)
       /\ (~elevator_door_open /\ elevator_door_open') =>
             (animation_phase = 1 /\ animation_timer = 0)
      ]_vars

\* the first tick of phase 1: the door has opened and the tone has started
C14_Witness ==
    /\ animation_phase = 1
    /\ animation_timer = 1
    /\ elevator_door_open
    /\ sound = "500Hz"

\* C15 as claimed: when the main loop comes to the poll with no traveller
\* active and the door animation of the dropoff still in progress, a request
\* can be accepted.
C15_AcceptDuringDropoffAnimation ==
    (/\ pc = "inputs"
     /\ ~traveller_active
     /\ (floor_just_reached \/ animation_phase # 0)
     /\ requests < MaxRequests) => ENABLED (HandleInputs /\ Accepted)

\* C15 amended: a request is accepted only with floor_just_reached false,
\* the sequencer in phase 0 with animation_timer 0 and the door closed, that
\* is, never during the door animation of the dropoff.
C15_NoAcceptDuringAnimation ==
    [][Accepted =>
          /\ ~floor_just_reached
          /\ animation_phase = 0
          /\ animation_timer = 0
          /\ ~elevator_door_open]_vars

\* a second request has just been accepted, after the dropoff of the first
\* traveller and its door animation
C15_Witness ==
    /\ requests = 2
    /\ pc = "arrive"
    /\ traveller_active
    /\ ~traveller_onboard
    /\ button_just_pushed
    /\ button_timer = 0
    /\ polled = "other"

\* C16: traveller_active or traveller_onboard goes from true to false only in
\* the step of lines 279-288 taken with traveller_onboard true and the car at
\* the destination; that step clears both and sets floor_just_reached; and
\* that step, taken with the traveller onboard at the destination, always
\* does so.
C16_DropoffAtTrigger ==
    [][/\ ((traveller_active /\ ~traveller_active')
           \/ (traveller_onboard /\ ~traveller_onboard')) =>
             /\ pc = "arrive"
             /\ traveller_onboard
             /\ current_position = destination
             /\ ~floor_just_reached
             /\ floor_just_reached'
             /\ ~traveller_active'
             /\ ~traveller_onboard'
       /\ (pc = "arrive" /\ pc' = "board" /\ traveller_onboard
           /\ current_position = destination) =>
             (floor_just_reached' /\ ~traveller_active' /\ ~traveller_onboard')
      ]_vars

\* the traveller has just been dropped on a floor other than its own, and
\* the sequencer has been triggered but has not ticked yet
C16_Witness ==
    /\ pc = "board"
    /\ requests >= 1
    /\ ~traveller_active
    /\ ~traveller_onboard
    /\ floor_just_reached
    /\ animation_phase = 0
    /\ animation_timer = 0
    /\ current_position = destination
    /\ current_position # traveller_floor

\* C17: traveller_onboard becomes true only in the step of lines 291-294,
\* taken with traveller_active true, the car at traveller_floor and
\* elevator_door_open read true; that step taken with the traveller already
\* onboard changes no car or traveller variable; and in every state
\* traveller_onboard implies traveller_active.
C17_BoardingConditions ==
    /\ [][/\ (~traveller_onboard /\ traveller_onboard') =>
                /\ pc = "board"
                /\ traveller_active
                /\ current_position = traveller_floor
                /\ elevator_door_open
          /\ (pc = "board" /\ pc' = "move" /\ traveller_onboard) =>
                UNCHANGED carVars
         ]_vars
    /\ [](traveller_onboard => traveller_active)

\* the traveller has just boarded through the open door
C17_Witness ==
    /\ pc = "move"
    /\ iter_done
    /\ traveller_onboard
    /\ traveller_active
    /\ elevator_door_open
    /\ current_position = traveller_floor
    /\ waiting_marker = NoInput

C19_ParkedWhenIdle ==
    ~traveller_active =>
        (current_position = destination /\ current_position \in FloorCoords)

\* after a service that ended above floor 0 the main loop is about to poll
\* the inputs with no traveller active and the door cycle over
C19_Witness ==
    /\ pc = "inputs"
    /\ ~traveller_active
    /\ ~floor_just_reached
    /\ requests >= 1
    /\ current_position # FLOOR_0
    /\ current_position = destination

\* the feedback timer is armed
ButtonArmed == button_just_pushed \/ button_timer > 0

\* the pickup/dropoff tone is on: phase 1 from its first tick to the tick
\* that stops the tone
ToneWindow ==
    animation_phase = 1 /\ animation_timer >= 1 /\ animation_timer <= ToneTicks

\* C20: the feedback timer is never armed inside the window of the
\* pickup/dropoff tone; the 500 Hz tone is stopped only by the tick of phase 1
\* that ends its window, and it never starts while the 3 kHz tone is on.
C20_TonesApart ==
    /\ [](~(ButtonArmed /\ ToneWindow))
    /\ [][/\ (sound = "500Hz" /\ sound' # "500Hz") =>
                (animation_phase' = 1 /\ animation_timer' = ToneTicks
                 /\ sound' = "off")
          /\ (sound # "500Hz" /\ sound' = "500Hz") => sound = "off"
         ]_vars

\* the closest the two tones get: the traveller was placed on the floor the
\* car stood on, so timer and sequencer started together; the pickup tone
\* has started and the feedback timer is disarmed
C20_Witness ==
    /\ ToneWindow
    /\ sound = "500Hz"
    /\ ~ButtonArmed
    /\ traveller_active
    /\ ~traveller_onboard
    /\ svc_car = traveller_floor
    /\ cycle_here
====
